---------------------------- MODULE Spec2Model ----------------------------
(***************************************************************************)
(* A model of adiabatic_theorem.ipynb: the notebook samples two Hermitian  *)
(* 2x2 matrices A and B, integrates dU/dt = -i H(t) U with                 *)
(* H(t) = (1 - t/T) A + (t/T) B from U(0) = U_A for every T of T_list,     *)
(* keeps the terminal matrices U(T) in U_T_list and computes               *)
(* D(T) = |(U(T)^dagger B U(T))[0][1]|.                                    *)
(*                                                                         *)
(* Numbers.  A real number is an exact rational <<n, d>> in lowest terms   *)
(* with d > 0; a complex number is a record [re, im] of two rationals.     *)
(* A 2x2 matrix is a sequence of two rows of two complex numbers, so the   *)
(* Python entry M[r][c] is M[r+1][c+1] here.  A numpy vector is a          *)
(* sequence; Python index k is index k+1 here.                             *)
(***************************************************************************)
EXTENDS Integers, Sequences, FiniteSets, TLC

VARIABLES
    pc,            \* the statement of the notebook that runs next
    A,             \* module-level A (cell 6bf579f7)
    B,             \* module-level B
    U_A,           \* eigenvectors of A
    T,             \* module-level T: the sweep's and the analysis' loop variable, read by H
    T_list,        \* the configured durations
    U_T_list,      \* the terminal matrices kept by the sweep
    U_A_flat,      \* matrix_to_flat(U_A)
    t_span,        \* the interval handed to solve_ivp
    solution,      \* the solve_ivp call of the current sweep iteration and its result
    solved,        \* the solve_ivp calls made so far, in order (one record per call)
    it,            \* the position of the iterator of "for T in T_list"
    j,             \* the analysis loop's index (Python's j, from 0)
    approx_B_diag_list,
    off_diag_elements_of_approx_B_list,
    fn_name,       \* the function last applied on its own (pure-function specifications)
    fn_in,         \* its argument
    fn_out         \* its result

vars == <<pc, A, B, U_A, T, T_list, U_T_list, U_A_flat, t_span, solution, solved,
          it, j, approx_B_diag_list, off_diag_elements_of_approx_B_list,
          fn_name, fn_in, fn_out>>

sweepVars == <<pc, A, B, U_A, T, T_list, U_T_list, U_A_flat, t_span, solution, solved,
               it, j, approx_B_diag_list, off_diag_elements_of_approx_B_list>>

fnVars == <<fn_name, fn_in, fn_out>>

---------------------------------------------------------------------------
(* Exact rational arithmetic, standing for the notebook's float arithmetic *)

Abs(n) == IF n < 0 THEN -n ELSE n

RECURSIVE GCD(_, _)
GCD(a, b) == IF b = 0 THEN a ELSE GCD(b, a % b)

\* the rational n/d (d # 0) in lowest terms with a positive denominator
Q(n, d) ==
    LET s == IF d < 0 THEN -1 ELSE 1
        g == GCD(Abs(n), Abs(d))
    IN  <<(s * n) \div g, (s * d) \div g>>

IntR(n) == <<n, 1>>

RAdd(x, y) == Q(x[1] * y[2] + y[1] * x[2], x[2] * y[2])
RSub(x, y) == Q(x[1] * y[2] - y[1] * x[2], x[2] * y[2])
RMul(x, y) == Q(x[1] * y[1], x[2] * y[2])
\* Python's x / y on floats; y # 0 wherever the notebook divides
RDiv(x, y) == Q(x[1] * y[2], x[2] * y[1])
RNeg(x) == <<-x[1], x[2]>>

(* Complex arithmetic as numpy's complex128 loops compute it *)
Cx(re, im) == [re |-> re, im |-> im]
CInt(a, b) == Cx(IntR(a), IntR(b))
FromReal(x) == Cx(x, IntR(0))
ImagUnit == CInt(0, 1)

CAdd(x, y) == Cx(RAdd(x.re, y.re), RAdd(x.im, y.im))
CMul(x, y) == Cx(RSub(RMul(x.re, y.re), RMul(x.im, y.im)),
                 RAdd(RMul(x.re, y.im), RMul(x.im, y.re)))
CConj(x) == Cx(x.re, RNeg(x.im))
\* a real scalar times a complex number: numpy casts the scalar to complex
CScale(s, x) == CMul(FromReal(s), x)
CDivReal(x, s) == Cx(RDiv(x.re, s), RDiv(x.im, s))

\* np.absolute(z) = sqrt(re^2 + im^2), kept as the exact number under the root
Absolute(z) == [sqrt_of |-> RAdd(RMul(z.re, z.re), RMul(z.im, z.im))]

(* 2x2 matrices *)
Mat(a, b, c, d) == <<<<a, b>>, <<c, d>>>>
MAdd(M, N) == [r \in 1..2 |-> [c \in 1..2 |-> CAdd(M[r][c], N[r][c])]]
MScale(s, M) == [r \in 1..2 |-> [c \in 1..2 |-> CScale(s, M[r][c])]]
MCScale(z, M) == [r \in 1..2 |-> [c \in 1..2 |-> CMul(z, M[r][c])]]
MDivReal(M, s) == [r \in 1..2 |-> [c \in 1..2 |-> CDivReal(M[r][c], s)]]
\* M.conj().T and np.conj(M.T)
ConjT(M) == [r \in 1..2 |-> [c \in 1..2 |-> CConj(M[c][r])]]
\* M @ N
MatMul(M, N) ==
    [r \in 1..2 |-> [c \in 1..2 |->
        CAdd(CMul(M[r][1], N[1][c]), CMul(M[r][2], N[2][c]))]]

IsHermitian(M) == M = ConjT(M)

MatricesOver(S) == {Mat(a, b, c, d) : a \in S, b \in S, c \in S, d \in S}

---------------------------------------------------------------------------
(* The encoding layer (cell eab04962) *)

\* np.real(x), np.imag(x) of a complex vector
Real(x) == [k \in 1..Len(x) |-> x[k].re]
Imag(x) == [k \in 1..Len(x) |-> x[k].im]

\* matrix.flatten(): row-major
Flatten(M) == <<M[1][1], M[1][2], M[2][1], M[2][2]>>
\* x.reshape((2,2)) of a length-4 vector: row-major
Reshape22(x) == <<<<x[1], x[2]>>, <<x[3], x[4]>>>>

complex_to_real_imag(x) == Real(x) \o Imag(x)

real_imag_to_complex_swapped(real_imag) ==
    LET n_half == Len(real_imag) \div 2
    IN  [k \in 1..n_half |->
            CAdd(FromReal(real_imag[n_half + k]),
                 CMul(ImagUnit, FromReal(real_imag[k])))]

\* real_imag[:n_half] + 1.j * real_imag[n_half:], for an input of even length
real_imag_to_complex(real_imag) ==
    LET n_half == Len(real_imag) \div 2
    IN  [k \in 1..n_half |->
            CAdd(FromReal(real_imag[k]),
                 CMul(ImagUnit, FromReal(real_imag[n_half + k])))]

matrix_to_flat_interleaved(matrix) ==
    LET x == Flatten(matrix)
    IN  <<x[1].re, x[1].im, x[2].re, x[2].im, x[3].re, x[3].im, x[4].re, x[4].im>>

matrix_to_flat(matrix) == complex_to_real_imag(Flatten(matrix))

flat_to_matrix(flattened) == Reshape22(real_imag_to_complex(flattened))

---------------------------------------------------------------------------
(* The encoding layer applied on its own to bounded inputs *)

\* real and imaginary parts of the inputs range over the integers -1..EncMax
EncMax == 1
EncReals == {IntR(n) : n \in -1..EncMax}
EncComplex == {Cx(x, y) : x \in EncReals, y \in EncReals}
\* the real vectors of length n over EncReals
EncVectors(n) == [1..n -> EncReals]
\* the lengths of the vectors handed to real_imag_to_complex on its own
SplitLens == {2, 4, 6}

NotInNotebook ==
    /\ pc = "none"
    /\ A = "none" /\ B = "none" /\ U_A = "none" /\ T = "none"
    /\ T_list = <<>> /\ U_T_list = <<>> /\ U_A_flat = "none"
    /\ t_span = "none" /\ solution = "none" /\ solved = <<>>
    /\ it = 0 /\ j = 0
    /\ approx_B_diag_list = <<>>
    /\ off_diag_elements_of_approx_B_list = <<>>

FnInit ==
    /\ fn_name = "none"
    /\ fn_in = <<>>
    /\ fn_out = <<>>

EncInit == NotInNotebook /\ FnInit

ApplyMatrixToFlat ==
    /\ fn_name = "none"
    /\ \E a \in EncComplex, b \in EncComplex, c \in EncComplex, d \in EncComplex :
          /\ fn_in' = Mat(a, b, c, d)
          /\ fn_out' = matrix_to_flat(Mat(a, b, c, d))
    /\ fn_name' = "matrix_to_flat"
    /\ UNCHANGED sweepVars

ApplyFlatToMatrix ==
    /\ fn_name = "none"
    /\ \E v \in EncVectors(8) :
          /\ fn_in' = v
          /\ fn_out' = flat_to_matrix(v)
    /\ fn_name' = "flat_to_matrix"
    /\ UNCHANGED sweepVars

ApplyRealImagToComplex ==
    /\ fn_name = "none"
    /\ \E n \in SplitLens : \E v \in EncVectors(n) :
          /\ fn_in' = v
          /\ fn_out' = real_imag_to_complex(v)
    /\ fn_name' = "real_imag_to_complex"
    /\ UNCHANGED sweepVars

EncNext == ApplyMatrixToFlat \/ ApplyFlatToMatrix \/ ApplyRealImagToComplex

SpecEnc == EncInit /\ [][EncNext]_vars

\* C1: decoding the encoding of a complex 2x2 matrix gives the matrix back, and
\* encoding the decoding of a real vector of length 8 gives the vector back.
EncodingRoundTrip ==
    /\ fn_name = "matrix_to_flat" => flat_to_matrix(fn_out) = fn_in
    /\ fn_name = "flat_to_matrix" => matrix_to_flat(fn_out) = fn_in

\* a matrix with four different entries, real and imaginary parts different, was encoded
EncodingRoundTripWitness ==
    /\ fn_name = "matrix_to_flat"
    /\ fn_in = Mat(CInt(1, 0), CInt(0, 1), CInt(-1, 1), CInt(0, -1))
    /\ Len(fn_out) = 8

\* C2: matrix_to_flat(M) is the four real parts in row-major order followed by
\* the four imaginary parts in row-major order, and real_imag_to_complex pairs
\* entry k of the first half of its input with entry k of the second half.
EncodingLayout ==
    /\ fn_name = "matrix_to_flat" =>
          fn_out = << fn_in[1][1].re, fn_in[1][2].re, fn_in[2][1].re, fn_in[2][2].re,
                      fn_in[1][1].im, fn_in[1][2].im, fn_in[2][1].im, fn_in[2][2].im >>
    /\ fn_name = "real_imag_to_complex" =>
          /\ Len(fn_out) * 2 = Len(fn_in)
          /\ \A k \in 1..Len(fn_out) :
                /\ fn_out[k].re = fn_in[k]
                /\ fn_out[k].im = fn_in[Len(fn_out) + k]

\* a vector whose two halves differ was split
EncodingLayoutWitness ==
    /\ fn_name = "real_imag_to_complex"
    /\ fn_in = <<IntR(1), IntR(0), IntR(-1), IntR(-1), IntR(0), IntR(1)>>
    /\ fn_out = <<CInt(1, -1), CInt(0, 0), CInt(-1, 1)>>

---------------------------------------------------------------------------
(* Cell 6bf579f7: the sampler and the Hamiltonian *)

\* a real 2x2 array as a complex one
RealMat(R) == [r \in 1..2 |-> [c \in 1..2 |-> FromReal(R[r][c])]]

sample_hermitian_matrix_no_conj(real_part, imag_part) ==
    LET matrix == MAdd(RealMat(real_part), MCScale(ImagUnit, RealMat(imag_part)))
        transposed == [r \in 1..2 |-> [c \in 1..2 |-> matrix[c][r]]]
    IN  MDivReal(MAdd(matrix, transposed), IntR(2))

\* sample_hermitian_matrix() with the two np.random.randn(2, 2) draws as parameters
sample_hermitian_matrix(real_part, imag_part) ==
    LET matrix == MAdd(RealMat(real_part), MCScale(ImagUnit, RealMat(imag_part)))
        hermitian_matrix == MDivReal(MAdd(matrix, ConjT(matrix)), IntR(2))
    IN  hermitian_matrix

H_unscaled(t) ==
    MAdd(MScale(RSub(IntR(1), t), A), MScale(t, B))

H_imaginary(t) ==
    MAdd(MScale(RSub(IntR(1), RDiv(t, T)), A),
         MCScale(CMul(ImagUnit, FromReal(RDiv(t, T))), B))

\* def H(t): return (1 - t/T) * A + (t/T) * B, reading the module-level T, A, B
H(t) ==
    MAdd(MScale(RSub(IntR(1), RDiv(t, T)), A), MScale(RDiv(t, T), B))

\* 10**e for an integer exponent e
RECURSIVE Pow10(_)
Pow10(e) == IF e = 0 THEN IntR(1)
            ELSE IF e < 0 THEN RDiv(Pow10(e + 1), IntR(10))
            ELSE RMul(Pow10(e - 1), IntR(10))

\* the number of entries of T_list the model keeps
NumT == 3
\* T_list = [10**(-1 + j * .25) for j in range(18)], of which the model keeps the
\* entries with a rational value, j = 0, 4, 8, ...: 1/10, 1, 10, ...
T_list_value == [k \in 1..NumT |-> Pow10(k - 2)]

---------------------------------------------------------------------------
(* The sampler applied on its own to bounded draws *)

\* the draws of np.random.randn range over the integers -1..SampMax
SampMax == 1
SampReals == {IntR(n) : n \in -1..SampMax}
RealMatrices == MatricesOver(SampReals)

ApplySample ==
    /\ fn_name = "none"
    /\ \E real_part \in RealMatrices, imag_part \in RealMatrices :
          /\ fn_in' = <<real_part, imag_part>>
          /\ fn_out' = sample_hermitian_matrix(real_part, imag_part)
    /\ fn_name' = "sample_hermitian_matrix"
    /\ UNCHANGED sweepVars

SpecSample == EncInit /\ [][ApplySample]_vars

\* C5: the matrix the sampler returns equals its own conjugate transpose: its
\* diagonal is real and its off-diagonal entries are complex conjugates.
SamplerHermitian ==
    fn_name = "sample_hermitian_matrix" =>
        /\ fn_out = ConjT(fn_out)
        /\ fn_out[1][1].im = IntR(0)
        /\ fn_out[2][2].im = IntR(0)
        /\ fn_out[1][2] = CConj(fn_out[2][1])

\* a draw that is not Hermitian itself, with a complex off-diagonal result
SamplerHermitianWitness ==
    /\ fn_name = "sample_hermitian_matrix"
    /\ fn_in = << Mat(IntR(1), IntR(1), IntR(0), IntR(-1)),
                  Mat(IntR(1), IntR(1), IntR(0), IntR(1)) >>
    /\ fn_out = Mat(Cx(IntR(1), IntR(0)), Cx(Q(1, 2), Q(1, 2)),
                    Cx(Q(1, 2), Q(-1, 2)), Cx(IntR(-1), IntR(0)))

---------------------------------------------------------------------------
(* H applied on its own to bounded A, B, T and t *)

HEntries == {CInt(1, 0), CInt(0, 1)}
\* matrices that are not Hermitian, and what the sampler makes of them
HInputs == MatricesOver(HEntries) \cup {MDivReal(MAdd(X, ConjT(X)), IntR(2)) : X \in MatricesOver(HEntries)}
\* durations: entries of T_list and two that are not powers of ten
HDurations == {T_list_value[k] : k \in 1..NumT} \cup {Q(1, 3), IntR(3)}
\* H is evaluated at t = k * T / TimeDen, k = 0..TimeDen
TimeDen == 4

HInit ==
    /\ pc = "none"
    /\ A \in HInputs /\ B \in HInputs /\ T \in HDurations
    /\ U_A = "none" /\ T_list = <<>> /\ U_T_list = <<>> /\ U_A_flat = "none"
    /\ t_span = "none" /\ solution = "none" /\ solved = <<>>
    /\ it = 0 /\ j = 0
    /\ approx_B_diag_list = <<>>
    /\ off_diag_elements_of_approx_B_list = <<>>
    /\ FnInit

ApplyH ==
    /\ fn_name = "none"
    /\ \E k \in 0..TimeDen :
          LET t == RDiv(RMul(IntR(k), T), IntR(TimeDen))
          IN  /\ fn_in' = t
              /\ fn_out' = H(t)
    /\ fn_name' = "H"
    /\ UNCHANGED sweepVars

SpecH == HInit /\ [][ApplyH]_vars

\* C3: H(0) is A and H(T) is B, for every A, B and every T > 0.
HamiltonianEndpoints ==
    fn_name = "H" =>
        /\ fn_in = IntR(0) => fn_out = A
        /\ fn_in = T => fn_out = B

\* H was evaluated at t = T, for a T that is not 1 and B different from A
HamiltonianEndpointsWitness ==
    /\ fn_name = "H" /\ fn_in = T /\ T = Q(1, 10)
    /\ A # B /\ fn_out = B

\* C4: with Hermitian A and B, H(t) is Hermitian for every t in [0, T].
HamiltonianHermitian ==
    (fn_name = "H" /\ IsHermitian(A) /\ IsHermitian(B)) => IsHermitian(fn_out)

\* H was evaluated strictly inside the interval, between two different Hermitian
\* matrices with complex entries, and its value is neither of them
HamiltonianHermitianWitness ==
    /\ fn_name = "H" /\ fn_in = RDiv(T, IntR(4))
    /\ IsHermitian(A) /\ IsHermitian(B)
    /\ A[1][2].im # IntR(0) /\ B[1][2].im = IntR(0)
    /\ fn_out # A /\ fn_out # B

---------------------------------------------------------------------------
(* The notebook, run once from its first cell to its last *)

Identity == Mat(CInt(1, 0), CInt(0, 0), CInt(0, 0), CInt(1, 0))
Swap == Mat(CInt(0, 0), CInt(1, 0), CInt(1, 0), CInt(0, 0))
\* diag(1, i) @ R, R the rotation with cosine 3/5 and sine 4/5
RotPhase == Mat(Cx(Q(3, 5), IntR(0)), Cx(Q(-4, 5), IntR(0)),
                Cx(IntR(0), Q(4, 5)), Cx(IntR(0), Q(3, 5)))
\* a matrix that is not unitary: a numerical solution drifts off unitarity
Drifted == Mat(CInt(1, 0), Cx(IntR(0), Q(1, 2)), CInt(0, 0), CInt(1, 0))

\* the pairs (real_part, imag_part) np.random.randn draws in the run
RandDraws ==
    { << Mat(IntR(1), IntR(2), IntR(-2), IntR(-1)), Mat(IntR(3), IntR(1), IntR(1), IntR(0)) >>,
      << Mat(IntR(16), IntR(1), IntR(-1), IntR(9)), Mat(IntR(5), IntR(24), IntR(0), IntR(-3)) >>,
      << Mat(IntR(0), IntR(1), IntR(-1), IntR(1)), Mat(IntR(2), IntR(3), IntR(3), IntR(-1)) >> }

\* the matrices np.linalg.eigh may return as eigenvectors
EighCandidates == {Identity, Swap, RotPhase}

RLeq(x, y) == x[1] * y[2] <= y[1] * x[2]

\* np.linalg.eigh(M)[1]: a unitary U whose columns are eigenvectors of M, the
\* eigenvalues in ascending order: U^dagger M U = diag(w0, w1) with w0 <= w1
eigh_vectors(M) ==
    {U \in EighCandidates :
        LET D == MatMul(MatMul(ConjT(U), M), U)
        IN  /\ MatMul(ConjT(U), U) = Identity
            /\ D[1][2] = CInt(0, 0) /\ D[2][1] = CInt(0, 0)
            /\ D[1][1].im = IntR(0) /\ D[2][2].im = IntR(0)
            /\ RLeq(D[1][1].re, D[2][2].re)}

\* A Python function object is its name; calling it applies the function of that name.
\* "H" is the notebook's; the others are Hamiltonian functions a caller may pass
\* to matrix_differential_equation: t |-> B, and t |-> t * A + B.
Call(func, t) ==
    CASE func = "H" -> H(t)
      [] func = "H_static" -> B
      [] func = "H_ramp" -> MAdd(MScale(t, A), B)

matrix_differential_equation_right(t, U_flat, H_func) ==
    LET U == flat_to_matrix(U_flat)
        dUdt == MatMul(U, MCScale(CInt(0, -1), Call(H_func, t)))
    IN  matrix_to_flat(dUdt)

\* dUdt = -1.j * H_func(t) @ U on the decoded state, encoded again
matrix_differential_equation(t, U_flat, H_func) ==
    LET U == flat_to_matrix(U_flat)
        dUdt == MatMul(MCScale(CInt(0, -1), Call(H_func, t)), U)
    IN  matrix_to_flat(dUdt)

num_values == 100
\* t_list = np.linspace(0, T, num_values + 1): entry k (from 0) of the grid
t_list(k) == RDiv(RMul(IntR(k), T), IntR(num_values))

Init ==
    /\ pc = "sample_A"
    /\ A = "undefined" /\ B = "undefined" /\ U_A = "undefined" /\ T = "undefined"
    /\ T_list = <<>> /\ U_T_list = <<>> /\ U_A_flat = "undefined"
    /\ t_span = "undefined" /\ solution = "undefined" /\ solved = <<>>
    /\ it = 0 /\ j = 0
    /\ approx_B_diag_list = <<>>
    /\ off_diag_elements_of_approx_B_list = <<>>
    /\ FnInit

\* A = sample_hermitian_matrix()
SampleA ==
    /\ pc = "sample_A"
    /\ \E draw \in RandDraws : A' = sample_hermitian_matrix(draw[1], draw[2])
    /\ pc' = "sample_B"
    /\ UNCHANGED <<B, U_A, T, T_list, U_T_list, U_A_flat, t_span, solution, solved,
                   it, j, approx_B_diag_list, off_diag_elements_of_approx_B_list, fnVars>>

\* B = sample_hermitian_matrix()
SampleB ==
    /\ pc = "sample_B"
    /\ \E draw \in RandDraws : B' = sample_hermitian_matrix(draw[1], draw[2])
    /\ pc' = "eigh"
    /\ UNCHANGED <<A, U_A, T, T_list, U_T_list, U_A_flat, t_span, solution, solved,
                   it, j, approx_B_diag_list, off_diag_elements_of_approx_B_list, fnVars>>

\* U_A = np.linalg.eigh(A)[1]
EighA ==
    /\ pc = "eigh"
    /\ U_A' \in eigh_vectors(A)
    /\ pc' = "lists"
    /\ UNCHANGED <<A, B, T, T_list, U_T_list, U_A_flat, t_span, solution, solved,
                   it, j, approx_B_diag_list, off_diag_elements_of_approx_B_list, fnVars>>

\* cell 4df45b6a: T_list = [...]; U_T_list = []
DefineLists ==
    /\ pc = "lists"
    /\ T_list' = T_list_value
    /\ U_T_list' = <<>>
    /\ pc' = "flatten"
    /\ UNCHANGED <<A, B, U_A, T, U_A_flat, t_span, solution, solved,
                   it, j, approx_B_diag_list, off_diag_elements_of_approx_B_list, fnVars>>

\* U_A_flat = matrix_to_flat(U_A)
FlattenUA ==
    /\ pc = "flatten"
    /\ U_A_flat' = matrix_to_flat(U_A)
    /\ pc' = "sweep"
    /\ UNCHANGED <<A, B, U_A, T, T_list, U_T_list, t_span, solution, solved,
                   it, j, approx_B_diag_list, off_diag_elements_of_approx_B_list, fnVars>>

\* the states an integration step may arrive at
SolverStates == {RotPhase, Drifted}

\* the number of steps the solver takes from t = 0 to t = T
SolverSteps == 2
\* the grid points one step covers (the last step stops at t = T)
StepPoints == (num_values + SolverSteps - 1) \div SolverSteps

Min(a, b) == IF a < b THEN a ELSE b

\* what the loop keeps of a solve_ivp call once it has returned
CallRecord(sol) ==
    [t_span |-> sol.t_span, y0 |-> sol.y0, success |-> sol.status = "finished",
     ncols |-> Len(sol.y),
     y_T |-> IF Len(sol.y) > num_values THEN sol.y[num_values + 1] ELSE <<>>]

sweep_t_span_unit(T_value) == <<IntR(0), IntR(1)>>

\* t_span = (0, T)
sweep_t_span(T_value) == <<IntR(0), T_value>>

solve_ivp_y0_carried ==
    IF U_T_list = <<>> THEN U_A_flat ELSE matrix_to_flat(U_T_list[Len(U_T_list)])

\* the initial state handed to solve_ivp: its third argument, U_A_flat
solve_ivp_y0 == U_A_flat

\* for T in T_list: t_span = (0, T); num_values = 100; t_list = ...;
\* solve_ivp(matrix_differential_equation, t_span, U_A_flat, args=(H,), t_eval=t_list)
\* is entered.  With T_list exhausted the cell ends and the next cells run.
SweepNext ==
    /\ pc = "sweep"
    /\ IF it < Len(T_list)
       THEN /\ T' = T_list[it + 1]
            /\ it' = it + 1
            /\ t_span' = sweep_t_span(T_list[it + 1])
            /\ solution' = [t_span |-> sweep_t_span(T_list[it + 1]), y0 |-> solve_ivp_y0,
                            status |-> "running", k |-> 0, y_now |-> solve_ivp_y0,
                            nfev |-> 0, f |-> <<>>, H_read |-> <<>>, y |-> <<>>]
            /\ pc' = "solve_ivp"
       ELSE /\ pc' = "analysis"
            /\ UNCHANGED <<T, it, t_span, solution>>
    /\ UNCHANGED <<A, B, U_A, T_list, U_T_list, U_A_flat, solved,
                   j, approx_B_diag_list, off_diag_elements_of_approx_B_list, fnVars>>

\* One step of the solver inside solve_ivp: it evaluates the right-hand side at
\* the current point (nfev counts the evaluations; H_read keeps what
\* the last evaluation of H read from the module-level T, A, B and what it returned), advances to a later grid point (the last step to t_span[1])
\* and emits the columns of the t_eval points it passed: y0 at t = 0, the new
\* state at the others.  Arriving at t_span[1] ends the call with success.
SolverStep ==
    /\ pc = "solve_ivp"
    /\ solution.status = "running"
    /\ \E M \in SolverStates :
          LET k2 == Min(solution.k + StepPoints, num_values)
              y2 == matrix_to_flat(M)
              first == IF solution.k = 0 THEN <<solution.y0>> ELSE <<>>
              cols == first \o [c \in 1..(k2 - solution.k) |-> y2]
              sol2 == [solution EXCEPT
                          !.f = matrix_differential_equation(t_list(solution.k), solution.y_now, "H"),
                          !.nfev = solution.nfev + 1,
                          !.H_read = [t |-> t_list(solution.k), T |-> T, A |-> A, B |-> B,
                                      value |-> H(t_list(solution.k))],
                          !.k = k2,
                          !.y_now = y2,
                          !.y = solution.y \o cols,
                          !.status = IF k2 = num_values THEN "finished" ELSE "running"]
          IN  /\ solution' = sol2
              /\ IF k2 = num_values
                 THEN /\ pc' = "extract"
                      /\ solved' = Append(solved, CallRecord(sol2))
                 ELSE /\ pc' = "solve_ivp"
                      /\ solved' = solved
    /\ UNCHANGED <<A, B, U_A, T, T_list, U_T_list, U_A_flat, t_span,
                   it, j, approx_B_diag_list, off_diag_elements_of_approx_B_list, fnVars>>

\* The solver fails at a step before t_span[1]: solve_ivp returns status -1,
\* success False, with the columns of the t_eval points passed so far.
SolverFail ==
    /\ pc = "solve_ivp"
    /\ solution.status = "running"
    /\ solution' = [solution EXCEPT !.status = "failed"]
    /\ solved' = Append(solved, CallRecord([solution EXCEPT !.status = "failed"]))
    /\ pc' = "extract"
    /\ UNCHANGED <<A, B, U_A, T, T_list, U_T_list, U_A_flat, t_span,
                   it, j, approx_B_diag_list, off_diag_elements_of_approx_B_list, fnVars>>

ColumnFirst(sol) == 1

ColumnLast(sol) == Len(sol.y)

\* the column of solution.y the loop reads: Python's index num_values
ColumnRead(sol) == num_values + 1

\* U_T_list.append(U_T)
ExtractAppend(list, U_T) == Append(list, U_T)

\* U_T_flat = np.array([solution.y[i][num_values] for i in range(8)]);
\* U_T = real_imag_to_complex(U_T_flat).reshape((2,2)); U_T_list.append(U_T).
\* The index raises IndexError when solution.y has no column num_values.
Extract ==
    /\ pc = "extract"
    /\ LET c == ColumnRead(solution)
       IN  IF c \in 1..Len(solution.y)
           THEN LET U_T_flat == [i \in 1..8 |-> solution.y[c][i]]
                    U_T == Reshape22(real_imag_to_complex(U_T_flat))
                IN  /\ U_T_list' = ExtractAppend(U_T_list, U_T)
                    /\ pc' = "sweep"
           ELSE /\ pc' = "error"
                /\ UNCHANGED U_T_list
    /\ UNCHANGED <<A, B, U_A, T, T_list, U_A_flat, t_span, solution, solved,
                   it, j, approx_B_diag_list, off_diag_elements_of_approx_B_list, fnVars>>

approx_B_diag_of_reversed(U_T) == MatMul(MatMul(U_T, B), ConjT(U_T))

\* approx_B_diag = np.conj(U_T.T) @ B @ U_T, reading the module-level B
approx_B_diag_of(U_T) == MatMul(MatMul(ConjT(U_T), B), U_T)

\* cell f56690f6 displays U_T_list[-1] @ np.conj(U_T_list[-1].T) and changes nothing;
\* cell c8fc6b9c then starts: approx_B_diag_list = []; off_diag_elements_of_approx_B_list = []
AnalysisInit ==
    /\ pc = "analysis"
    /\ approx_B_diag_list' = <<>>
    /\ off_diag_elements_of_approx_B_list' = <<>>
    /\ j' = 0
    /\ pc' = "analysis_loop"
    /\ UNCHANGED <<A, B, U_A, T, T_list, U_T_list, U_A_flat, t_span, solution, solved,
                   it, fnVars>>

\* for j in range(len(T_list)): T = T_list[j]; U_T = U_T_list[j];
\* approx_B_diag = ...; both lists are appended to.  U_T_list[j] raises
\* IndexError when the sweep kept fewer matrices than T_list has entries.
AnalysisStep ==
    /\ pc = "analysis_loop"
    /\ IF j < Len(T_list)
       THEN /\ T' = T_list[j + 1]
            /\ IF j + 1 \in 1..Len(U_T_list)
               THEN LET U_T == U_T_list[j + 1]
                        approx_B_diag == approx_B_diag_of(U_T)
                    IN  /\ approx_B_diag_list' = Append(approx_B_diag_list, approx_B_diag)
                        /\ off_diag_elements_of_approx_B_list' =
                              Append(off_diag_elements_of_approx_B_list,
                                     Absolute(approx_B_diag[1][2]))
                        /\ j' = j + 1
                        /\ pc' = "analysis_loop"
               ELSE /\ pc' = "error"
                    /\ UNCHANGED <<approx_B_diag_list, off_diag_elements_of_approx_B_list, j>>
       ELSE /\ pc' = "plot"
            /\ UNCHANGED <<T, approx_B_diag_list, off_diag_elements_of_approx_B_list, j>>
    /\ UNCHANGED <<A, B, U_A, T_list, U_T_list, U_A_flat, t_span, solution, solved,
                   it, fnVars>>

\* plt.plot(np.log10(T_list), off_diag_elements_of_approx_B_list, marker='o'):
\* one point per entry; lists of different lengths raise ValueError
Plot ==
    /\ pc = "plot"
    /\ pc' = IF Len(T_list) = Len(off_diag_elements_of_approx_B_list)
             THEN "done" ELSE "error"
    /\ UNCHANGED <<A, B, U_A, T, T_list, U_T_list, U_A_flat, t_span, solution, solved,
                   it, j, approx_B_diag_list, off_diag_elements_of_approx_B_list, fnVars>>

Next ==
    \/ SampleA \/ SampleB \/ EighA \/ DefineLists \/ FlattenUA
    \/ SweepNext \/ SolverStep \/ SolverFail \/ Extract
    \/ AnalysisInit \/ AnalysisStep \/ Plot

Spec == Init /\ [][Next]_vars

---------------------------------------------------------------------------
(* The sweep and the analysis *)

SweepFinished == pc \in {"analysis", "analysis_loop", "plot", "done"}

\* U^dagger B U, the matrix the deviation is read from
Rotated(U) == MatMul(ConjT(U), MatMul(B, U))

\* C6: once the sweep loop has finished, U_T_list holds one matrix per entry
\* of T_list in the same order; entry k is the decoded column num_values of the
\* k-th solve_ivp call, which ran on (0, T_list[k]) from matrix_to_flat(U_A); the
\* analysis computes its k-th result from U_T_list[k] while T is T_list[k].
SweepAlignment ==
    SweepFinished =>
        /\ Len(U_T_list) = Len(T_list)
        /\ Len(solved) = Len(T_list)
        /\ \A k \in 1..Len(T_list) :
              /\ solved[k].t_span = <<IntR(0), T_list[k]>>
              /\ solved[k].y0 = matrix_to_flat(U_A)
              /\ solved[k].ncols = num_values + 1
              /\ U_T_list[k] = flat_to_matrix(solved[k].y_T)
        /\ Len(approx_B_diag_list) = Len(off_diag_elements_of_approx_B_list)
        /\ \A k \in 1..Len(approx_B_diag_list) :
              approx_B_diag_list[k] = Rotated(U_T_list[k])
        /\ (pc = "analysis_loop" /\ j > 0) =>
              (T = T_list[j] /\ Len(approx_B_diag_list) = j)

\* the whole notebook ran, and the sweep kept different matrices for different T
SweepAlignmentWitness ==
    /\ pc = "done"
    /\ Len(U_T_list) = Len(T_list)
    /\ Len(approx_B_diag_list) = Len(T_list)
    /\ U_T_list[1] = RotPhase /\ U_T_list[2] = Drifted
    /\ U_A = Swap

\* C7: a solve_ivp call that reports non-success, or returns without the column
\* of t = T, appends nothing to U_T_list: it is the last call of the run, U_T_list
\* holds the matrices of the calls before it only, and the run ends in an error.
FailureIsNoResult ==
    \A k \in 1..Len(solved) :
        (~solved[k].success \/ solved[k].ncols <= num_values) =>
            /\ k = Len(solved)
            /\ Len(U_T_list) = k - 1
            /\ pc \in {"extract", "error"}
            /\ \A m \in 1..(k - 1) : U_T_list[m] = flat_to_matrix(solved[m].y_T)

\* the second call failed after it had emitted columns, and the run has stopped
FailureIsNoResultWitness ==
    /\ pc = "error"
    /\ Len(solved) = 2
    /\ ~solved[2].success /\ solved[2].ncols > 0
    /\ Len(U_T_list) = 1

\* C8: a failed integration does not keep the other T values from being
\* integrated: when the run has ended, every entry of T_list whose solve_ivp
\* call did not fail has its terminal matrix in U_T_list.
FailureIsolated ==
    pc \in {"done", "error"} =>
        \A k \in 1..Len(T_list) :
            \/ k <= Len(solved) /\ ~solved[k].success
            \/ /\ k <= Len(solved) /\ solved[k].success
               /\ \E m \in 1..Len(U_T_list) : U_T_list[m] = flat_to_matrix(solved[k].y_T)

\* C9: every deviation the analysis records is the magnitude of the (0,1) entry
\* of U(T)^dagger B U(T); with B Hermitian the (1,0) entry is the complex
\* conjugate of the (0,1) entry and has the same magnitude.  When the analysis
\* is done there is one deviation per entry of T_list.
DeviationMetric ==
    /\ \A k \in 1..Len(off_diag_elements_of_approx_B_list) :
          LET R == Rotated(U_T_list[k])
          IN  /\ off_diag_elements_of_approx_B_list[k] = Absolute(R[1][2])
              /\ IsHermitian(B) =>
                    /\ R[2][1] = CConj(R[1][2])
                    /\ off_diag_elements_of_approx_B_list[k] = Absolute(R[2][1])
    /\ pc \in {"plot", "done"} =>
          Len(off_diag_elements_of_approx_B_list) = Len(T_list)

\* a deviation that is not zero was recorded for a terminal matrix that is not unitary
DeviationMetricWitness ==
    /\ pc = "done"
    /\ IsHermitian(B) /\ B[1][2] # CInt(0, 0)
    /\ U_T_list[2] = Drifted
    /\ off_diag_elements_of_approx_B_list[2] # Absolute(CInt(0, 0))
    /\ off_diag_elements_of_approx_B_list[2] = Absolute(approx_B_diag_list[2][2][1])

\* C10: every deviation the analysis records is the magnitude of the (0,1)
\* entry of U(T) B U(T)^dagger, as the notebook's text defines D(T).
DocumentedMetric ==
    \A k \in 1..Len(off_diag_elements_of_approx_B_list) :
        off_diag_elements_of_approx_B_list[k] =
            Absolute(MatMul(U_T_list[k], MatMul(B, ConjT(U_T_list[k])))[1][2])

---------------------------------------------------------------------------
(* matrix_differential_equation applied on its own *)

\* the Hamiltonian functions handed to matrix_differential_equation
HFuncs == {"H", "H_static", "H_ramp"}

\* the real 8-vectors handed to it: encoded matrices, and two vectors whose
\* eight entries all differ
MdeVectors ==
    {matrix_to_flat(M) : M \in EighCandidates \cup SolverStates}
        \cup {[k \in 1..8 |-> IntR(k)], [k \in 1..8 |-> Q(k * k - 20, k)]}

HermitianDraws == {sample_hermitian_matrix(draw[1], draw[2]) : draw \in RandDraws}

MdeInit ==
    /\ pc = "none"
    /\ A \in HermitianDraws /\ B \in HermitianDraws /\ T \in HDurations
    /\ U_A = "none" /\ T_list = <<>> /\ U_T_list = <<>> /\ U_A_flat = "none"
    /\ t_span = "none" /\ solution = "none" /\ solved = <<>>
    /\ it = 0 /\ j = 0
    /\ approx_B_diag_list = <<>>
    /\ off_diag_elements_of_approx_B_list = <<>>
    /\ FnInit

\* The call matrix_differential_equation(t, U_flat, H_func).  The function
\* assigns only to its locals U and dUdt, so the array the caller passed as
\* U_flat holds after the call what it held before: fn_in keeps the arguments
\* as passed and the array as it is after the call.
ApplyMde ==
    /\ fn_name = "none"
    /\ \E k \in 0..TimeDen, U_flat \in MdeVectors, H_func \in HFuncs :
          LET t == RDiv(RMul(IntR(k), T), IntR(TimeDen))
          IN  /\ fn_in' = [t |-> t, U_flat |-> U_flat, H_func |-> H_func,
                           U_flat_after |-> U_flat]
              /\ fn_out' = matrix_differential_equation(t, U_flat, H_func)
    /\ fn_name' = "matrix_differential_equation"
    /\ UNCHANGED sweepVars

SpecMde == MdeInit /\ [][ApplyMde]_vars

\* entry (r, c) of -i * (Hm @ U)
MinusIHU(Hm, U, r, c) ==
    CMul(CInt(0, -1), CAdd(CMul(Hm[r][1], U[1][c]), CMul(Hm[r][2], U[2][c])))

\* C11: matrix_differential_equation(t, v, H_func) is the real 8-vector that
\* encodes -i * H_func(t) * U, U the matrix v encodes (entry (r, c) of U is
\* v[2r + c] + i v[4 + 2r + c], from 0): the four real parts row-major, then
\* the four imaginary parts; v is after the call what it was before.
DerivativeEncoding ==
    fn_name = "matrix_differential_equation" =>
        LET v == fn_in.U_flat
            U == Mat(Cx(v[1], v[5]), Cx(v[2], v[6]), Cx(v[3], v[7]), Cx(v[4], v[8]))
            Hm == Call(fn_in.H_func, fn_in.t)
        IN  /\ fn_out = << MinusIHU(Hm, U, 1, 1).re, MinusIHU(Hm, U, 1, 2).re,
                           MinusIHU(Hm, U, 2, 1).re, MinusIHU(Hm, U, 2, 2).re,
                           MinusIHU(Hm, U, 1, 1).im, MinusIHU(Hm, U, 1, 2).im,
                           MinusIHU(Hm, U, 2, 1).im, MinusIHU(Hm, U, 2, 2).im >>
            /\ fn_in.U_flat_after = v

\* the notebook's H was passed, at a t inside (0, T), with a complex state that
\* does not commute with H(t): the derivative is not zero and differs from U @ (-i H)
DerivativeEncodingWitness ==
    /\ fn_name = "matrix_differential_equation"
    /\ fn_in.H_func = "H" /\ fn_in.t = RDiv(T, IntR(2)) /\ A # B
    /\ fn_in.U_flat = matrix_to_flat(Drifted)
    /\ fn_out # [k \in 1..8 |-> IntR(0)]
    /\ fn_out # matrix_differential_equation_right(fn_in.t, fn_in.U_flat, "H")

---------------------------------------------------------------------------
(* Independence of the sweep's iterations *)

InSweep == pc \in {"sweep", "solve_ivp", "extract"}

\* C12: no step of the sweep loop changes A, B, U_A, U_A_flat or T_list, or a
\* matrix U_T_list already holds; every solve_ivp call, whatever came before it,
\* starts from matrix_to_flat(U_A) on the interval (0, T_list[k]) of its own T.
SweepIndependent ==
    [][ /\ InSweep =>
              /\ A' = A /\ B' = B /\ U_A' = U_A /\ U_A_flat' = U_A_flat
              /\ T_list' = T_list
              /\ Len(U_T_list') >= Len(U_T_list)
              /\ \A k \in 1..Len(U_T_list) : U_T_list'[k] = U_T_list[k]
        /\ pc' = "solve_ivp" =>
              /\ solution'.y0 = matrix_to_flat(U_A')
              /\ solution'.t_span = <<IntR(0), T_list'[it']>>
        /\ \A k \in 1..Len(solved') :
              /\ solved'[k].y0 = matrix_to_flat(U_A')
              /\ solved'[k].t_span = <<IntR(0), T_list'[k]>> ]_vars

\* a second integration has returned; it started from matrix_to_flat(U_A) although
\* the first one ended in a different matrix
SweepIndependentWitness ==
    /\ pc = "extract"
    /\ Len(solved) = 2 /\ Len(U_T_list) = 1
    /\ U_T_list[1] # U_A
    /\ solved[2].y0 = matrix_to_flat(U_A)
    /\ solved[2].success

---------------------------------------------------------------------------
(* What H reads while the solver runs *)

\* (1 - t/T) A + (t/T) B for the given T, A and B
Interpolate(t, T_value, A_value, B_value) ==
    [r \in 1..2 |-> [c \in 1..2 |->
        CAdd(CScale(RSub(IntR(1), RDiv(t, T_value)), A_value[r][c]),
             CScale(RDiv(t, T_value), B_value[r][c]))]]

\* C13: while solve_ivp runs, the module-level T is the upper end of the
\* interval being integrated, and every evaluation of H the solver made read
\* that T and the sampled A and B: its value is the interpolation between A
\* and B at t / t_span[1].
HReadsSweepT ==
    /\ pc = "solve_ivp" =>
          /\ T = t_span[2]
          /\ solution.t_span = t_span
          /\ T = T_list[it]
    /\ (it > 0 /\ solution.nfev > 0) =>
          /\ solution.H_read.T = solution.t_span[2]
          /\ solution.H_read.A = A /\ solution.H_read.B = B
          /\ solution.H_read.value =
                Interpolate(solution.H_read.t, solution.t_span[2], A, B)

\* in the second iteration the solver evaluated H at a point inside (0, T), T
\* no longer the first iteration's, and the value is neither A nor B
HReadsSweepTWitness ==
    /\ pc = "extract" /\ it = 2
    /\ solution.nfev > 1
    /\ solution.H_read.t # IntR(0)
    /\ solution.H_read.T = T_list[2] /\ T_list[2] # T_list[1]
    /\ solution.H_read.value # A /\ solution.H_read.value # B

---------------------------------------------------------------------------
(* The notebook with its sanity switch on: line "B = A" uncommented *)

\* B = sample_hermitian_matrix() followed by B = A: the draw is overwritten
SampleBThenSetToA ==
    /\ pc = "sample_B"
    /\ \E draw \in RandDraws :
          LET sampled == sample_hermitian_matrix(draw[1], draw[2])
          IN  B' = A
    /\ pc' = "eigh"
    /\ UNCHANGED <<A, U_A, T, T_list, U_T_list, U_A_flat, t_span, solution, solved,
                   it, j, approx_B_diag_list, off_diag_elements_of_approx_B_list, fnVars>>

SanityNext ==
    \/ SampleA \/ SampleBThenSetToA \/ EighA \/ DefineLists \/ FlattenUA
    \/ SweepNext \/ SolverStep \/ SolverFail \/ Extract
    \/ AnalysisInit \/ AnalysisStep \/ Plot

SpecSanity == Init /\ [][SanityNext]_vars

\* C14: with B set equal to A, H(t) is A at every point of the grid of every
\* integration of the sweep, and every value of H the solver obtained is A.
SanityHamiltonianConstant ==
    /\ pc \in {"solve_ivp", "extract"} =>
          /\ B = A
          /\ \A k \in 0..num_values : H(t_list(k)) = A
    /\ (it > 0 /\ solution.nfev > 0) => solution.H_read.value = A

\* in the second integration H was evaluated inside (0, T) for a complex A
SanityHamiltonianConstantWitness ==
    /\ pc = "extract" /\ it = 2
    /\ solution.nfev > 1
    /\ solution.H_read.t # IntR(0)
    /\ A[1][2].im # IntR(0)
    /\ solution.H_read.value = A

=============================================================================
